---- MODULE Spec2Model ----
(***************************************************************************)
(* A model of rust-coreaudio-draft: the device layer (AudioSystemObject,   *)
(* AudioObject, StringRef) and the stream engine (Stream<T>).              *)
(***************************************************************************)
EXTENDS Integers, Sequences, FiniteSets, TLC

(***************************************************************************)
(* Bounds of the model.                                                    *)
(***************************************************************************)
\* number of device handles the platform knows
NumDevices == 2
\* largest number of streams a device has in one scope
MaxStreams == 1
\* longest device name, in UTF-16 code units
MaxNameLen == 2
\* largest channel count of a Stream
MaxChannels == 2
\* number of memory locations a Stream value can occupy
NumAddrs == 2

(***************************************************************************)
(* Program constants.                                                      *)
(***************************************************************************)
kAudioObjectUnknown == 0
kAudioObjectSystemObject == 1
\* mem::size_of::<AudioStream>(), a wrapped AudioStreamID (u32)
SizeOfAudioStream == 4
\* mem::size_of::<AudioObject>(), a wrapped AudioObjectID (u32)
SizeOfAudioObject == 4

Scopes == {"Input", "Output"}
DeviceIds == 2..(NumDevices + 1)
ObjectIds == {kAudioObjectUnknown} \cup DeviceIds

Range(s) == {s[i] : i \in DOMAIN s}

\* Result<T, Error>
Ok(v) == [ok |-> TRUE, val |-> v]
Err(e) == [ok |-> FALSE, err |-> e]
IsErr(r, e) == ~r.ok /\ r.err = e

VARIABLES
    deviceList,     \* the platform's device-list property: a sequence of handles
    streams,        \* streams[d][s]: number of streams of device d in scope s
    defaultDevice,  \* defaultDevice[s]: the platform's default-device property
    call,           \* the most recent call of the device layer and its outcome
    stm,            \* the Stream value: where it lives, its parameters, its sample type
    unit,           \* the hardware unit the Stream owns
    last,           \* the most recent stream operation or render invocation
    threads,        \* where the render thread and the caller's teardown stand
    panicked        \* "none", or the assertion/unwrap that aborted the program

devVars == <<deviceList, streams, defaultDevice, call>>
stmVars == <<stm, unit, last, threads>>
vars == <<deviceList, streams, defaultDevice, call, stm, unit, last, threads, panicked>>

(***************************************************************************)
(* Property addresses (selector, scope), element is always the master.     *)
(***************************************************************************)
Address(selector, scope) == [mSelector |-> selector, mScope |-> scope]
DEVICE_NAME_PROPERTY_ADDRESS == Address("kAudioObjectPropertyName", "Global")
DEVICE_PROPERTY_ADDRESS == Address("kAudioHardwarePropertyDevices", "Global")
DEFAULT_INPUT_DEVICE_PROPERTY_ADDRESS ==
    Address("kAudioHardwarePropertyDefaultInputDevice", "Global")
DEFAULT_OUTPUT_DEVICE_PROPERTY_ADDRESS ==
    Address("kAudioHardwarePropertyDefaultOutputDevice", "Global")
INPUT_DEVICE_STREAMS_PROPERTY_ADDRESS == Address("kAudioDevicePropertyStreams", "Input")
OUTPUT_DEVICE_STREAMS_PROPERTY_ADDRESS == Address("kAudioDevicePropertyStreams", "Output")
INPUT_DEVICE_SOURCE_PROPERTY_ADDRESS == Address("kAudioDevicePropertyDataSource", "Input")
OUTPUT_DEVICE_SOURCE_PROPERTY_ADDRESS == Address("kAudioDevicePropertyDataSource", "Output")
INPUT_DEVICE_SOURCE_NAME_PROPERTY_ADDRESS ==
    Address("kAudioDevicePropertyDataSourceNameForIDCFString", "Input")
OUTPUT_DEVICE_SOURCE_NAME_PROPERTY_ADDRESS ==
    Address("kAudioDevicePropertyDataSourceNameForIDCFString", "Output")

(***************************************************************************)
(* The property query protocol (module audio_object_utils) over the        *)
(* platform's property space.  `fail` is the platform rejecting the query. *)
(***************************************************************************)
\* which scope's default-device property an address names
DefaultScopeOf(address) ==
    IF address = DEFAULT_INPUT_DEVICE_PROPERTY_ADDRESS THEN "Input" ELSE "Output"

HasProperty(id, address) ==
    \/ /\ id = kAudioObjectSystemObject
       /\ address \in {DEVICE_PROPERTY_ADDRESS,
                       DEFAULT_INPUT_DEVICE_PROPERTY_ADDRESS,
                       DEFAULT_OUTPUT_DEVICE_PROPERTY_ADDRESS}
    \/ /\ id \in Range(deviceList)
       /\ address \in {INPUT_DEVICE_STREAMS_PROPERTY_ADDRESS,
                       OUTPUT_DEVICE_STREAMS_PROPERTY_ADDRESS,
                       DEVICE_NAME_PROPERTY_ADDRESS}

\* byte size of a stream-list property
utils_get_property_data_size(id, address, fail) ==
    IF fail \/ ~HasProperty(id, address)
    THEN Err("InvalidParameters")
    ELSE Ok(streams[id][address.mScope] * SizeOfAudioStream)

\* a default-device property of the system object
utils_get_property_data(id, address, fail) ==
    IF fail \/ ~HasProperty(id, address)
    THEN Err("InvalidParameters")
    ELSE Ok(defaultDevice[DefaultScopeOf(address)])

\* the device-list property of the system object, as an array of handles.
\* The platform reports the list's byte size plus `slack` bytes; a slack
\* above zero is a platform that breaks its contract on sizes.
utils_get_property_array(id, address, slack, fail) ==
    LET size == Len(deviceList) * SizeOfAudioObject + slack
    IN  IF fail \/ ~HasProperty(id, address)
        THEN Err("InvalidParameters")
        ELSE IF size % SizeOfAudioObject # 0
        THEN Err("InvalidParameters")
        ELSE Ok(SubSeq(deviceList, 1, size \div SizeOfAudioObject))

\* the platform accepts any handle as a default device.  `issued` is the
\* write handed to the platform, `writes` the write it carried out.
utils_set_property_data(id, address, data, fail) ==
    IF fail \/ ~HasProperty(id, address)
    THEN [result |-> Err("InvalidParameters"), writes |-> <<>>,
          issued |-> << [address |-> address, data |-> data] >>]
    ELSE [result |-> Ok("unit"),
          writes |-> << [address |-> address, data |-> data] >>,
          issued |-> << [address |-> address, data |-> data] >>]

(***************************************************************************)
(* AudioObject                                                             *)
(***************************************************************************)
is_valid(id) == id # kAudioObjectUnknown

get_property_data_size(id, address, fail) ==
    utils_get_property_data_size(id, address, fail)

number_of_streams(id, scope, fail) ==
    LET address == IF scope = "Input"
                   THEN INPUT_DEVICE_STREAMS_PROPERTY_ADDRESS
                   ELSE OUTPUT_DEVICE_STREAMS_PROPERTY_ADDRESS
        size == get_property_data_size(id, address, fail)
    IN  IF ~size.ok THEN size ELSE Ok(size.val \div SizeOfAudioStream)

\* in_scope reporting a failed size query as "not in scope"
in_scope_error_is_false(id, scope, fail) ==
    LET n == number_of_streams(id, scope, fail)
    IN  IF ~n.ok THEN Ok(FALSE) ELSE Ok(n.val > 0)

in_scope(id, scope, fail) ==
    LET n == number_of_streams(id, scope, fail)
    IN  IF ~n.ok THEN n ELSE Ok(n.val > 0)

(***************************************************************************)
(* AudioSystemObject                                                       *)
(***************************************************************************)
\* get_default_device without the validity check of the handle read
get_default_device_unchecked(scope, fail) ==
    LET address == IF scope = "Input"
                   THEN DEFAULT_INPUT_DEVICE_PROPERTY_ADDRESS
                   ELSE DEFAULT_OUTPUT_DEVICE_PROPERTY_ADDRESS
    IN  utils_get_property_data(kAudioObjectSystemObject, address, fail)

get_default_device(scope, fail) ==
    LET address == IF scope = "Input"
                   THEN DEFAULT_INPUT_DEVICE_PROPERTY_ADDRESS
                   ELSE DEFAULT_OUTPUT_DEVICE_PROPERTY_ADDRESS
        device == utils_get_property_data(kAudioObjectSystemObject, address, fail)
    IN  IF ~device.ok THEN device
        ELSE IF is_valid(device.val) THEN Ok(device.val)
        ELSE Err("NoDeviceFound")

\* get_all_devices turning a failed query into an empty list
get_all_devices_or_empty(slack, fail) ==
    LET all == utils_get_property_array(kAudioObjectSystemObject, DEVICE_PROPERTY_ADDRESS,
                                        slack, fail)
    IN  IF all.ok THEN all ELSE Ok(<<>>)

get_all_devices(slack, fail) ==
    utils_get_property_array(kAudioObjectSystemObject, DEVICE_PROPERTY_ADDRESS, slack, fail)

\* get_devices keeping every device of the list, whatever its scope
get_devices_unfiltered(scope, f) ==
    LET all == get_all_devices(0, f.list)
    IN  IF ~all.ok THEN [result |-> all, panic |-> "none"]
        ELSE IF \E i \in DOMAIN all.val : ~in_scope(all.val[i], scope, all.val[i] \in f.scope).ok
        THEN [result |-> Err("panic"), panic |-> "get_devices_unwrap"]
        ELSE [result |-> Ok(all.val), panic |-> "none"]

\* f.list: the device-list query fails; f.scope: the devices whose stream
\* query fails
get_devices(scope, f) ==
    LET all == get_all_devices(0, f.list)
    IN  IF ~all.ok THEN [result |-> all, panic |-> "none"]
        ELSE IF \E i \in DOMAIN all.val : ~in_scope(all.val[i], scope, all.val[i] \in f.scope).ok
        THEN [result |-> Err("panic"), panic |-> "get_devices_unwrap"]
        ELSE [result |-> Ok(SelectSeq(all.val, LAMBDA d : in_scope(d, scope, FALSE).val)),
              panic |-> "none"]

\* set_default_device with the two checks in the other order
set_default_device_same_first(device, scope, f) ==
    LET in == in_scope(device, scope, f.size)
        default_device == get_default_device(scope, f.get)
        address == IF scope = "Input"
                   THEN DEFAULT_INPUT_DEVICE_PROPERTY_ADDRESS
                   ELSE DEFAULT_OUTPUT_DEVICE_PROPERTY_ADDRESS
    IN  IF ~default_device.ok THEN [result |-> default_device, writes |-> <<>>, issued |-> <<>>]
        ELSE IF device = default_device.val
        THEN [result |-> Err("SetSameDevice"), writes |-> <<>>, issued |-> <<>>]
        ELSE IF ~in.ok THEN [result |-> in, writes |-> <<>>, issued |-> <<>>]
        ELSE IF ~in.val THEN [result |-> Err("WrongScope"), writes |-> <<>>, issued |-> <<>>]
        ELSE utils_set_property_data(kAudioObjectSystemObject, address, device, f.set)

\* set_default_device without the comparison with the current default
set_default_device_no_same_check(device, scope, f) ==
    LET in == in_scope(device, scope, f.size)
        default_device == get_default_device(scope, f.get)
        address == IF scope = "Input"
                   THEN DEFAULT_INPUT_DEVICE_PROPERTY_ADDRESS
                   ELSE DEFAULT_OUTPUT_DEVICE_PROPERTY_ADDRESS
    IN  IF ~in.ok THEN [result |-> in, writes |-> <<>>, issued |-> <<>>]
        ELSE IF ~in.val THEN [result |-> Err("WrongScope"), writes |-> <<>>, issued |-> <<>>]
        ELSE IF ~default_device.ok THEN [result |-> default_device, writes |-> <<>>, issued |-> <<>>]
        ELSE utils_set_property_data(kAudioObjectSystemObject, address, device, f.set)

\* set_default_device taking a missing default as nothing to compare with
set_default_device_establish(device, scope, f) ==
    LET in == in_scope(device, scope, f.size)
        default_device == get_default_device(scope, f.get)
        address == IF scope = "Input"
                   THEN DEFAULT_INPUT_DEVICE_PROPERTY_ADDRESS
                   ELSE DEFAULT_OUTPUT_DEVICE_PROPERTY_ADDRESS
    IN  IF ~in.ok THEN [result |-> in, writes |-> <<>>, issued |-> <<>>]
        ELSE IF ~in.val THEN [result |-> Err("WrongScope"), writes |-> <<>>, issued |-> <<>>]
        ELSE IF default_device = Err("NoDeviceFound")
        THEN utils_set_property_data(kAudioObjectSystemObject, address, device, f.set)
        ELSE IF ~default_device.ok
        THEN [result |-> default_device, writes |-> <<>>, issued |-> <<>>]
        ELSE IF device = default_device.val
        THEN [result |-> Err("SetSameDevice"), writes |-> <<>>, issued |-> <<>>]
        ELSE utils_set_property_data(kAudioObjectSystemObject, address, device, f.set)

\* set_default_device writing the property before it compares the device
\* with the current default
set_default_device_write_first(device, scope, f) ==
    LET in == in_scope(device, scope, f.size)
        default_device == get_default_device(scope, f.get)
        address == IF scope = "Input"
                   THEN DEFAULT_INPUT_DEVICE_PROPERTY_ADDRESS
                   ELSE DEFAULT_OUTPUT_DEVICE_PROPERTY_ADDRESS
        set == utils_set_property_data(kAudioObjectSystemObject, address, device, f.set)
    IN  IF ~in.ok THEN [result |-> in, writes |-> <<>>, issued |-> <<>>]
        ELSE IF ~in.val THEN [result |-> Err("WrongScope"), writes |-> <<>>, issued |-> <<>>]
        ELSE IF ~set.result.ok THEN set
        ELSE IF ~default_device.ok THEN [set EXCEPT !.result = default_device]
        ELSE IF device = default_device.val
        THEN [set EXCEPT !.result = Err("SetSameDevice")]
        ELSE set

\* f.size, f.get, f.set: the platform rejects the stream-size query, the
\* default-device read, the default-device write
set_default_device(device, scope, f) ==
    LET in == in_scope(device, scope, f.size)
        default_device == get_default_device(scope, f.get)
        address == IF scope = "Input"
                   THEN DEFAULT_INPUT_DEVICE_PROPERTY_ADDRESS
                   ELSE DEFAULT_OUTPUT_DEVICE_PROPERTY_ADDRESS
    IN  IF ~in.ok THEN [result |-> in, writes |-> <<>>, issued |-> <<>>]
        ELSE IF ~in.val THEN [result |-> Err("WrongScope"), writes |-> <<>>, issued |-> <<>>]
        ELSE IF ~default_device.ok THEN [result |-> default_device, writes |-> <<>>, issued |-> <<>>]
        ELSE IF device = default_device.val
        THEN [result |-> Err("SetSameDevice"), writes |-> <<>>, issued |-> <<>>]
        ELSE utils_set_property_data(kAudioObjectSystemObject, address, device, f.set)

(***************************************************************************)
(* The demonstration program's device selection (main.rs) over the         *)
(* id-based wrappers of module utils.                                      *)
(***************************************************************************)
utils_get_device_ids(scope, f) == get_devices(scope, f)

utils_get_default_device_id(scope, fail) == get_default_device(scope, fail)

utils_set_default_device(id, scope, f) == set_default_device(id, scope, f)

\* f.list, f.scope: as in get_devices; f.current: the read of the current
\* default fails; f.size, f.get, f.set: as in set_default_device
change_default_device(scope, f) ==
    LET ids == utils_get_device_ids(scope, [list |-> f.list, scope |-> f.scope])
        devices == IF ids.result.ok THEN ids.result.val ELSE <<>>
        current_device == utils_get_default_device_id(scope, f.current)
        others == SelectSeq(devices, LAMBDA device : device # current_device.val)
        new_device == Head(others)
        set == utils_set_default_device(new_device, scope,
                                        [size |-> f.size, get |-> f.get, set |-> f.set])
    IN  IF ids.panic # "none"
        THEN [panic |-> ids.panic, attempts |-> <<>>, writes |-> <<>>]
        ELSE IF Len(devices) < 2
        THEN [panic |-> "none", attempts |-> <<>>, writes |-> <<>>]
        ELSE IF ~current_device.ok
        THEN [panic |-> "change_default_device_unwrap", attempts |-> <<>>, writes |-> <<>>]
        ELSE IF others = <<>>
        THEN [panic |-> "change_default_device_find", attempts |-> <<>>, writes |-> <<>>]
        ELSE [panic |-> IF set.result.ok THEN "none" ELSE "change_default_device_assert",
              attempts |-> << [device |-> new_device, scope |-> scope,
                               result |-> set.result] >>,
              writes |-> set.writes]

(***************************************************************************)
(* StringRef (module string_wrapper).  A platform string is a null handle  *)
(* or a sequence of UTF-16 code units.                                     *)
(***************************************************************************)
\* 'A', e-acute, a CJK ideograph, a lone high surrogate
CodeUnits == {65, 233, 20013, 55296}

StringRef(null, units) == [null |-> null, units |-> units]

RECURSIVE SeqsUpTo(_, _)
SeqsUpTo(S, n) ==
    IF n = 0 THEN {<<>>}
    ELSE LET shorter == SeqsUpTo(S, n - 1)
         IN  shorter \cup {Append(s, x) : s \in {q \in shorter : Len(q) = n - 1}, x \in S}

PlatformStrings ==
    {StringRef(TRUE, <<>>)} \cup {StringRef(FALSE, u) : u \in SeqsUpTo(CodeUnits, MaxNameLen)}

\* the UTF-8 bytes of one code unit; a lone surrogate has none
Utf8Encode(u) ==
    IF u \in 55296..57343 THEN <<>>
    ELSE IF u < 128 THEN <<u>>
    ELSE IF u < 2048 THEN <<192 + (u \div 64), 128 + (u % 64)>>
    ELSE <<224 + (u \div 4096), 128 + ((u \div 64) % 64), 128 + (u % 64)>>

\* CFStringGetBytes over the whole string with loss byte 0: converts code
\* units in order until one cannot be converted or no longer fits in
\* `max_len` bytes (`max_len` < 0: no buffer, only the size is computed)
RECURSIVE CFStringGetBytes(_, _)
CFStringGetBytes(units, max_len) ==
    IF units = <<>> THEN [converted |-> 0, buffer |-> <<>>]
    ELSE LET bytes == Utf8Encode(Head(units))
         IN  IF bytes = <<>> \/ (max_len >= 0 /\ Len(bytes) > max_len)
             THEN [converted |-> 0, buffer |-> <<>>]
             ELSE LET rest == CFStringGetBytes(Tail(units),
                                  IF max_len < 0 THEN max_len ELSE max_len - Len(bytes))
                  IN  [converted |-> 1 + rest.converted, buffer |-> bytes \o rest.buffer]

get_btye_array(units) ==
    LET length == Len(units)
        first == CFStringGetBytes(units, -1)
        size == Len(first.buffer)
        second == CFStringGetBytes(units, size)
    IN  IF length <= 0 THEN [result |-> Err("LengthIsZero"), panic |-> "none"]
        ELSE IF first.converted <= 0 \/ size <= 0
        THEN [result |-> Err("FailToGetBytes"), panic |-> "none"]
        ELSE IF size # length
        THEN [result |-> Err("panic"), panic |-> "get_btye_array_size_length"]
        ELSE IF first.converted # length
        THEN [result |-> Err("panic"), panic |-> "get_btye_array_converted_length"]
        ELSE IF second.converted <= 0
        THEN [result |-> Err("FailToGetBytes"), panic |-> "none"]
        ELSE IF second.converted # size
        THEN [result |-> Err("panic"), panic |-> "get_btye_array_converted_size"]
        ELSE [result |-> Ok(second.buffer), panic |-> "none"]

\* String::from_utf8: the code points of a well-formed byte sequence
RECURSIVE btye_array_to_string(_)
btye_array_to_string(buffer) ==
    IF buffer = <<>> THEN Ok(<<>>)
    ELSE LET b == buffer[1]
             n == IF b < 128 THEN 1
                  ELSE IF b \in 192..223 THEN 2
                  ELSE IF b \in 224..239 THEN 3
                  ELSE 0
         IN  IF n = 0 \/ Len(buffer) < n
                \/ \E i \in 2..n : buffer[i] \notin 128..191
             THEN Err("Utf8")
             ELSE LET cp == IF n = 1 THEN b
                            ELSE IF n = 2 THEN (b - 192) * 64 + (buffer[2] - 128)
                            ELSE (b - 224) * 4096 + (buffer[2] - 128) * 64 + (buffer[3] - 128)
                      rest == btye_array_to_string(SubSeq(buffer, n + 1, Len(buffer)))
                  IN  IF ~rest.ok THEN rest ELSE Ok(<<cp>> \o rest.val)

to_string(string_ref) ==
    IF string_ref.null THEN [result |-> Err("NullString"), panic |-> "none"]
    ELSE LET buffer == get_btye_array(string_ref.units)
         IN  IF ~buffer.result.ok THEN buffer
             ELSE [result |-> btye_array_to_string(buffer.result.val), panic |-> "none"]

into_string(string_ref) == to_string(string_ref)

\* the device-name property of a device: the string handle `name`
utils_get_property_string(id, address, name, fail) ==
    IF fail \/ ~HasProperty(id, address)
    THEN Err("InvalidParameters")
    ELSE Ok(name)

get_device_name(id, name, fail) ==
    LET handle == utils_get_property_string(id, DEVICE_NAME_PROPERTY_ADDRESS, name, fail)
    IN  IF ~handle.ok THEN [result |-> handle, panic |-> "none"]
        ELSE LET string == into_string(handle.val)
             IN  IF string.panic # "none" \/ string.result.ok THEN string
                 ELSE [result |-> Err("ConversionFailed"), panic |-> "none"]

(***************************************************************************)
(* Data sources and labels of a device.  `p` holds the platform's answers   *)
(* to the queries of one call: p.size_fail (the stream-size query is        *)
(* rejected), p.source (the device's data source, "none" for a device that  *)
(* has none), p.translate_fail and p.source_name (the translation of the    *)
(* source to its name), p.name_fail and p.name (the device-name property).  *)
(* `queries` lists the property addresses a call has queried, in order.     *)
(***************************************************************************)
\* 'ispk', 'hdpn', ... : a four-character code, or none
Sources == {"none", "ispk"}

\* the data-source property of a device in one scope
utils_get_property_source(id, address, source, fail) ==
    IF fail \/ id \notin Range(deviceList) \/ source = "none"
    THEN Err("InvalidParameters")
    ELSE Ok(source)

\* the source-name translation: the platform fills the caller's string handle
utils_get_property_data_with_ptr(id, address, source, source_name, fail) ==
    IF fail \/ id \notin Range(deviceList) \/ source = "none"
    THEN Err("InvalidParameters")
    ELSE Ok(source_name)

\* get_device_source reading the data source of a device out of scope too
get_device_source_unchecked(id, scope, p) ==
    LET streams_address == IF scope = "Input"
                           THEN INPUT_DEVICE_STREAMS_PROPERTY_ADDRESS
                           ELSE OUTPUT_DEVICE_STREAMS_PROPERTY_ADDRESS
        address == IF scope = "Input"
                   THEN INPUT_DEVICE_SOURCE_PROPERTY_ADDRESS
                   ELSE OUTPUT_DEVICE_SOURCE_PROPERTY_ADDRESS
        in == in_scope(id, scope, p.size_fail)
    IN  IF ~in.ok THEN [result |-> in, queries |-> <<streams_address>>]
        ELSE [result |-> utils_get_property_source(id, address, p.source, FALSE),
              queries |-> <<streams_address, address>>]

get_device_source(id, scope, p) ==
    LET streams_address == IF scope = "Input"
                           THEN INPUT_DEVICE_STREAMS_PROPERTY_ADDRESS
                           ELSE OUTPUT_DEVICE_STREAMS_PROPERTY_ADDRESS
        address == IF scope = "Input"
                   THEN INPUT_DEVICE_SOURCE_PROPERTY_ADDRESS
                   ELSE OUTPUT_DEVICE_SOURCE_PROPERTY_ADDRESS
        in == in_scope(id, scope, p.size_fail)
    IN  IF ~in.ok THEN [result |-> in, queries |-> <<streams_address>>]
        ELSE IF ~in.val THEN [result |-> Err("WrongScope"), queries |-> <<streams_address>>]
        ELSE [result |-> utils_get_property_source(id, address, p.source, FALSE),
              queries |-> <<streams_address, address>>]

\* name.into_string().map_err(Error::ConversionFailed), after `queries`
map_conversion(string, queries) ==
    IF string.panic # "none" \/ string.result.ok
    THEN [result |-> string.result, panic |-> string.panic, queries |-> queries]
    ELSE [result |-> Err("ConversionFailed"), panic |-> "none", queries |-> queries]

get_device_source_name(id, scope, p) ==
    LET source == get_device_source(id, scope, p)
        address == IF scope = "Input"
                   THEN INPUT_DEVICE_SOURCE_NAME_PROPERTY_ADDRESS
                   ELSE OUTPUT_DEVICE_SOURCE_NAME_PROPERTY_ADDRESS
    IN  IF ~source.result.ok
        THEN [result |-> source.result, panic |-> "none", queries |-> source.queries]
        ELSE LET name == utils_get_property_data_with_ptr(id, address, source.result.val,
                                                          p.source_name, p.translate_fail)
                 queries == Append(source.queries, address)
             IN  IF ~name.ok
                 THEN [result |-> name, panic |-> "none", queries |-> queries]
                 ELSE map_conversion(into_string(name.val), queries)

\* the match of get_device_label over the outcome of the source name;
\* `name` is what get_device_name() returns, called in the last arm only
get_device_label_match(source_name, name) ==
    IF source_name.panic # "none" \/ source_name.result.ok THEN source_name
    ELSE IF source_name.result.err = "WrongScope"
    THEN [result |-> Err("WrongScope"), panic |-> "none", queries |-> source_name.queries]
    ELSE [result |-> name.result, panic |-> name.panic,
          queries |-> Append(source_name.queries, DEVICE_NAME_PROPERTY_ADDRESS)]

\* get_device_label handing every error of the source name to the caller
get_device_label_no_fallback(id, scope, p) == get_device_source_name(id, scope, p)

\* get_device_label falling back to the device name on WrongScope too
get_device_label_fallback_always(id, scope, p) ==
    get_device_label_match(
        [get_device_source_name(id, scope, p) EXCEPT
            !.result = IF @.ok THEN @ ELSE Err("InvalidParameters")],
        get_device_name(id, p.name, p.name_fail))

get_device_label(id, scope, p) ==
    get_device_label_match(get_device_source_name(id, scope, p),
                           get_device_name(id, p.name, p.name_fail))

(***************************************************************************)
(* Unsigned machine integers.  A number N is the pair                      *)
(* <<N \div 2^16, N % 2^16>>, so that products beyond 2^31 can be formed.  *)
(***************************************************************************)
Limb == 2^16
Wide(n) == <<n \div Limb, n % Limb>>
WideMul(x, k) == <<x[1] * k + ((x[2] * k) \div Limb), (x[2] * k) % Limb>>
WideAdd(x, k) == <<x[1] + ((x[2] + k) \div Limb), (x[2] + k) % Limb>>
\* `as u32`: the low 32 bits
AsU32(x) == <<x[1] % Limb, x[2]>>

(***************************************************************************)
(* Format and Parameters                                                   *)
(***************************************************************************)
kAudioFormatFlagIsFloat == 1
kAudioFormatFlagIsSignedInteger == 4
kLinearPCMFormatFlagIsPacked == 8
kLinearPCMFormatFlagIsNonInterleaved == 32
noErr == 0

Formats == {"S16LE", "F32LE"}
SampleTypes == {"i16", "f32"}
Rates == {44100, 48000}

\* size_of::<T>()
size_of(T) == IF T = "i16" THEN 2 ELSE 4

byte_size(format) == IF format = "S16LE" THEN size_of("i16") ELSE size_of("f32")

\* the flags are distinct bits, so their union is their sum
to_format_flags(format) ==
    LET flags == IF format = "S16LE"
                 THEN kAudioFormatFlagIsSignedInteger
                 ELSE kAudioFormatFlagIsFloat
    IN  flags + kLinearPCMFormatFlagIsPacked + kLinearPCMFormatFlagIsNonInterleaved

Parameters_new(channels, format, rate) ==
    [channels |-> channels, format |-> format, rate |-> rate]

\* to_description for interleaved samples: a frame holds every channel
to_description_interleaved(parameters) ==
    LET bytes == byte_size(parameters.format)
        bits_per_channel == bytes * 8
        frames_per_packet == 1
        bytes_per_frame == bytes * parameters.channels
        bytes_per_packet == bytes_per_frame * frames_per_packet
    IN  [mSampleRate |-> parameters.rate,
         mFormatID |-> "kAudioFormatLinearPCM",
         mFormatFlags |-> to_format_flags(parameters.format),
         mBytesPerPacket |-> bytes_per_packet,
         mFramesPerPacket |-> frames_per_packet,
         mBytesPerFrame |-> bytes_per_frame,
         mChannelsPerFrame |-> parameters.channels,
         mBitsPerChannel |-> bits_per_channel,
         mReserved |-> 0]

to_description(parameters) ==
    LET bytes == byte_size(parameters.format)
        bits_per_channel == bytes * 8
        frames_per_packet == 1
        bytes_per_frame == bytes
        bytes_per_packet == bytes_per_frame * frames_per_packet
    IN  [mSampleRate |-> parameters.rate,
         mFormatID |-> "kAudioFormatLinearPCM",
         mFormatFlags |-> to_format_flags(parameters.format),
         mBytesPerPacket |-> bytes_per_packet,
         mFramesPerPacket |-> frames_per_packet,
         mBytesPerFrame |-> bytes_per_frame,
         mChannelsPerFrame |-> parameters.channels,
         mBitsPerChannel |-> bits_per_channel,
         mReserved |-> 0]

(***************************************************************************)
(* The hardware unit (module audio_unit).  Every primitive returns the     *)
(* status the platform chooses; a failed primitive changes nothing.        *)
(***************************************************************************)
\* noErr and two failures
UnitStatuses == {noErr, -50, -10867}

NoDescription ==
    [mSampleRate |-> 0, mFormatID |-> "none", mFormatFlags |-> 0, mBytesPerPacket |-> 0,
     mFramesPerPacket |-> 0, mBytesPerFrame |-> 0, mChannelsPerFrame |-> 0,
     mBitsPerChannel |-> 0, mReserved |-> 0]

\* a freshly opened unit; inputProcRefCon 0 is the null pointer
OpenedUnit ==
    [open |-> TRUE, formatSet |-> FALSE, description |-> NoDescription,
     inputProc |-> FALSE, inputProcRefCon |-> 0, initialized |-> FALSE, running |-> FALSE]
NoUnit == [OpenedUnit EXCEPT !.open = FALSE]

Primitive(name, status) == [prim |-> name, status |-> status]
UnitResult(status) == IF status = noErr THEN Ok("unit") ELSE Err(status)

AudioUnit_new(status) ==
    [result |-> IF status = noErr THEN Ok(OpenedUnit) ELSE Err(status),
     calls |-> <<Primitive("new", status)>>]

AudioUnit_set_property(u, property, data, status) ==
    [result |-> UnitResult(status),
     unit |-> IF status # noErr THEN u
              ELSE IF property = "kAudioUnitProperty_StreamFormat"
              THEN [u EXCEPT !.formatSet = TRUE, !.description = data]
              ELSE [u EXCEPT !.inputProc = TRUE, !.inputProcRefCon = data.inputProcRefCon],
     calls |-> <<Primitive(property, status)>>]

AudioUnit_initialize(u, status) ==
    [result |-> UnitResult(status),
     unit |-> IF status = noErr THEN [u EXCEPT !.initialized = TRUE] ELSE u,
     calls |-> <<Primitive("initialize", status)>>]

AudioUnit_uninitialize(u, status) ==
    [result |-> UnitResult(status),
     unit |-> IF status = noErr THEN [u EXCEPT !.initialized = FALSE] ELSE u,
     calls |-> <<Primitive("uninitialize", status)>>]

AudioUnit_start(u, status) ==
    [result |-> UnitResult(status),
     unit |-> IF status = noErr THEN [u EXCEPT !.running = TRUE] ELSE u,
     calls |-> <<Primitive("start", status)>>]

AudioUnit_stop(u, status) ==
    [result |-> UnitResult(status),
     unit |-> IF status = noErr THEN [u EXCEPT !.running = FALSE] ELSE u,
     calls |-> <<Primitive("stop", status)>>]

(***************************************************************************)
(* Stream<T>.  A Stream value `s` is [addr, parameters, T]; `u` is the     *)
(* state of the unit it owns; every operation returns its result, the      *)
(* unit's next state and the primitives it called, in order.               *)
(***************************************************************************)
\* impl From<audio_unit::Error> for Error
AudioUnitError(e) == [variant |-> "AudioUnit", e |-> e]
Wrap(r) == IF r.ok THEN r ELSE Err(AudioUnitError(r.err))

\* new opening the unit before it compares the sample sizes
new_open_first(channels, format, rate, T, status) ==
    LET parameters == Parameters_new(channels, format, rate)
        opened == AudioUnit_new(status)
    IN  IF byte_size(format) # size_of(T)
        THEN [panic |-> "new_byte_size", result |-> Err("panic"), calls |-> opened.calls]
        ELSE IF ~opened.result.ok
        THEN [panic |-> "none", result |-> Wrap(opened.result), calls |-> opened.calls]
        ELSE [panic |-> "none",
              result |-> Ok([parameters |-> parameters, T |-> T,
                             unit |-> opened.result.val]),
              calls |-> opened.calls]

new(channels, format, rate, T, status) ==
    IF byte_size(format) # size_of(T)
    THEN [panic |-> "new_byte_size", result |-> Err("panic"), calls |-> <<>>]
    ELSE LET parameters == Parameters_new(channels, format, rate)
             opened == AudioUnit_new(status)
         IN  IF ~opened.result.ok
             THEN [panic |-> "none", result |-> Wrap(opened.result), calls |-> opened.calls]
             ELSE [panic |-> "none",
                   result |-> Ok([parameters |-> parameters, T |-> T,
                                  unit |-> opened.result.val]),
                   calls |-> opened.calls]

init_unit(u, status) ==
    LET r == AudioUnit_initialize(u, status)
    IN  [r EXCEPT !.result = Wrap(r.result)]

uninit_unit(u, status) ==
    LET r == AudioUnit_uninitialize(u, status)
    IN  [r EXCEPT !.result = Wrap(r.result)]

set_stream_format(s, u, status) ==
    LET description == to_description(s.parameters)
        r == AudioUnit_set_property(u, "kAudioUnitProperty_StreamFormat", description, status)
    IN  [r EXCEPT !.result = Wrap(r.result)]

set_callback(s, u, status) ==
    LET callback_struct == [inputProc |-> "audio_unit_callback", inputProcRefCon |-> s.addr]
        r == AudioUnit_set_property(u, "kAudioUnitProperty_SetRenderCallback",
                                    callback_struct, status)
    IN  [r EXCEPT !.result = Wrap(r.result)]

\* init that performs every step and reports the first failure afterwards
init_all_steps(s, u, st) ==
    LET a == set_stream_format(s, u, st[1])
        b == set_callback(s, a.unit, st[2])
        c == init_unit(b.unit, st[3])
        calls == a.calls \o b.calls \o c.calls
    IN  IF ~a.result.ok THEN [c EXCEPT !.result = a.result, !.calls = calls]
        ELSE IF ~b.result.ok THEN [c EXCEPT !.result = b.result, !.calls = calls]
        ELSE [c EXCEPT !.calls = calls]

\* st: the statuses of the three primitives, in the order init calls them
init(s, u, st) ==
    LET a == set_stream_format(s, u, st[1])
        b == set_callback(s, a.unit, st[2])
        c == init_unit(b.unit, st[3])
    IN  IF ~a.result.ok THEN a
        ELSE IF ~b.result.ok THEN [b EXCEPT !.calls = a.calls \o b.calls]
        ELSE [c EXCEPT !.calls = a.calls \o b.calls \o c.calls]

\* start returning Ok at once when the unit is already running
start_if_stopped(u, status) ==
    LET r == AudioUnit_start(u, status)
    IN  IF u.running THEN [result |-> Ok("unit"), unit |-> u, calls |-> <<>>]
        ELSE [r EXCEPT !.result = Wrap(r.result)]

start(u, status) ==
    LET r == AudioUnit_start(u, status)
    IN  [r EXCEPT !.result = Wrap(r.result)]

stop(u, status) ==
    LET r == AudioUnit_stop(u, status)
    IN  [r EXCEPT !.result = Wrap(r.result)]

\* impl Drop for Stream; st: the statuses of stop and of uninitialize
drop(u, st) ==
    LET a == stop(u, st[1])
        b == uninit_unit(a.unit, st[2])
    IN  IF ~a.result.ok
        THEN [panic |-> "drop_stop", unit |-> a.unit, calls |-> a.calls]
        ELSE IF ~b.result.ok
        THEN [panic |-> "drop_uninit_unit", unit |-> b.unit, calls |-> a.calls \o b.calls]
        ELSE [panic |-> "none", unit |-> b.unit, calls |-> a.calls \o b.calls]

(***************************************************************************)
(* The render path.  An AudioBuffer is [mNumberChannels, mDataByteSize],   *)
(* the byte size a u32; frame counts are u32 widened to usize.             *)
(***************************************************************************)
\* the heap (re)allocations that `n` pushes onto Vec::new() make: a push
\* onto a full vector grows it to max(2 * cap, 4) elements
RECURSIVE VecPushAllocs(_, _, _)
VecPushAllocs(n, len, cap) ==
    IF len = n THEN 0
    ELSE IF len = cap
    THEN 1 + VecPushAllocs(n, len + 1, IF 2 * cap > 4 THEN 2 * cap ELSE 4)
    ELSE VecPushAllocs(n, len + 1, cap)

\* the position of the first buffer one of the loop's assertions rejects,
\* 0 when none is rejected
RECURSIVE FirstRejected(_, _, _, _)
FirstRejected(buffers, frames, T, i) ==
    IF i > Len(buffers) THEN 0
    ELSE IF buffers[i].mNumberChannels # 1
            \/ AsU32(WideMul(frames, size_of(T))) # buffers[i].mDataByteSize
    THEN i
    ELSE FirstRejected(buffers, frames, T, i + 1)

\* get_buffer_data with each slice as long as the buffer's bytes
get_buffer_data_byte_len(s, data) ==
    LET rejected == FirstRejected(data.buffers, data.frames, s.T, 1)
        channel_buffers == [i \in 1..Len(data.buffers) |->
                                [len |-> data.buffers[i].mDataByteSize]]
    IN  IF Len(data.buffers) # s.parameters.channels
        THEN [panic |-> "render_buffer_count", callback |-> <<>>, allocs |-> 0,
              returned |-> FALSE, status |-> noErr]
        ELSE IF rejected # 0
        THEN [panic |-> IF data.buffers[rejected].mNumberChannels # 1
                        THEN "render_interleave" ELSE "render_byte_size",
              callback |-> <<>>,
              allocs |-> VecPushAllocs(rejected - 1, 0, 0),
              returned |-> FALSE, status |-> noErr]
        ELSE [panic |-> "none",
              callback |-> << channel_buffers >>,
              allocs |-> VecPushAllocs(Len(data.buffers), 0, 0),
              returned |-> TRUE, status |-> noErr]

get_buffer_data(s, data) ==
    LET rejected == FirstRejected(data.buffers, data.frames, s.T, 1)
        channel_buffers == [i \in 1..Len(data.buffers) |-> [len |-> data.frames]]
    IN  IF Len(data.buffers) # s.parameters.channels
        THEN [panic |-> "render_buffer_count", callback |-> <<>>, allocs |-> 0,
              returned |-> FALSE, status |-> noErr]
        ELSE IF rejected # 0
        THEN [panic |-> IF data.buffers[rejected].mNumberChannels # 1
                        THEN "render_interleave" ELSE "render_byte_size",
              callback |-> <<>>,
              allocs |-> VecPushAllocs(rejected - 1, 0, 0),
              returned |-> FALSE, status |-> noErr]
        ELSE [panic |-> "none",
              callback |-> << channel_buffers >>,
              allocs |-> VecPushAllocs(Len(data.buffers), 0, 0),
              returned |-> TRUE, status |-> noErr]

render(s, in_number_of_frames, io_data) ==
    LET buffers == SubSeq(io_data.mBuffers, 1, io_data.mNumberBuffers)
        data == [buffers |-> buffers, frames |-> in_number_of_frames]
    IN  get_buffer_data(s, data)

\* extern "C" fn audio_unit_callback: `s` is what the context pointer
\* refers to
audio_unit_callback(s, in_number_of_frames, io_data) ==
    render(s, in_number_of_frames, io_data)

(***************************************************************************)
(* Initial state: the platform's device state is arbitrary, no Stream has  *)
(* been constructed, no call has been made.                                *)
(***************************************************************************)
Addrs == 1..NumAddrs
NoCall == [op |-> "none"]
NoStream == [alive |-> FALSE, addr |-> 0,
             parameters |-> Parameters_new(0, "S16LE", 44100), T |-> "i16"]
NoLast == [kind |-> "none"]
\* the render thread is idle and no teardown is under way
NoThreads == [render |-> "idle", in_ref_con |-> 0, stale |-> FALSE, deref |-> "none",
              teardown |-> "none", panic |-> "none"]

\* the platform lists its devices by ascending or by descending handle
Ascending == [i \in 1..NumDevices |-> i + 1]
Descending == [i \in 1..NumDevices |-> NumDevices + 2 - i]
DeviceLists == {Ascending, Descending}

Init ==
    /\ deviceList \in DeviceLists
    /\ streams \in [DeviceIds -> [Scopes -> 0..MaxStreams]]
    /\ defaultDevice \in [Scopes -> ObjectIds]
    /\ call = NoCall
    /\ stm = NoStream
    /\ unit = NoUnit
    /\ last = NoLast
    /\ threads = NoThreads
    /\ panicked = "none"

(***************************************************************************)
(* The device layer's actions.                                             *)
(***************************************************************************)
\* the default-device properties after the writes of one call
RECURSIVE ApplyWrites(_, _)
ApplyWrites(defaults, writes) ==
    IF writes = <<>> THEN defaults
    ELSE ApplyWrites([defaults EXCEPT ![DefaultScopeOf(Head(writes).address)] =
                                          Head(writes).data],
                     Tail(writes))

\* the platform rejects none of a call's queries, or one of them (the call
\* returns at the first query that fails)
QueryFailures ==
    {f \in [size : BOOLEAN, get : BOOLEAN, set : BOOLEAN] :
        Cardinality({q \in {"size", "get", "set"} : f[q]}) <= 1}

SetDefaultDevice ==
    /\ panicked = "none"
    /\ call = NoCall
    /\ \E device \in ObjectIds, scope \in Scopes, f \in QueryFailures :
          LET r == set_default_device(device, scope, f)
          IN  /\ defaultDevice' = ApplyWrites(defaultDevice, r.writes)
              /\ call' = [op |-> "set_default_device", device |-> device, scope |-> scope,
                          in_scope |-> in_scope(device, scope, f.size),
                          default |-> get_default_device(scope, f.get),
                          before |-> defaultDevice,
                          result |-> r.result, writes |-> r.writes, issued |-> r.issued]
    /\ UNCHANGED <<deviceList, streams, stmVars, panicked>>

GetDevices ==
    /\ panicked = "none"
    /\ call = NoCall
    /\ \E scope \in Scopes, f \in [list : BOOLEAN, scope : SUBSET DeviceIds] :
          LET r == get_devices(scope, f)
          IN  /\ call' = [op |-> "get_devices", scope |-> scope, fails |-> f,
                          result |-> r.result]
              /\ panicked' = r.panic
    /\ UNCHANGED <<deviceList, streams, defaultDevice, stmVars>>

InScope ==
    /\ panicked = "none"
    /\ call = NoCall
    /\ \E id \in ObjectIds, scope \in Scopes, fail \in BOOLEAN :
          call' = [op |-> "in_scope", device |-> id, scope |-> scope, fail |-> fail,
                   result |-> in_scope(id, scope, fail)]
    /\ UNCHANGED <<deviceList, streams, defaultDevice, stmVars, panicked>>

GetDefaultDevice ==
    /\ panicked = "none"
    /\ call = NoCall
    /\ \E scope \in Scopes, fail \in BOOLEAN :
          call' = [op |-> "get_default_device", scope |-> scope, fail |-> fail,
                   result |-> get_default_device(scope, fail)]
    /\ UNCHANGED <<deviceList, streams, defaultDevice, stmVars, panicked>>

GetAllDevices ==
    /\ panicked = "none"
    /\ call = NoCall
    /\ \E slack \in 0..(SizeOfAudioObject - 1), fail \in BOOLEAN :
          call' = [op |-> "get_all_devices", fail |-> fail,
                   raw_byte_size |-> Len(deviceList) * SizeOfAudioObject + slack,
                   result |-> get_all_devices(slack, fail)]
    /\ UNCHANGED <<deviceList, streams, defaultDevice, stmVars, panicked>>

\* the platform rejects none of the queries of one device selection, or one
ChangeFailures ==
    {f \in [list : BOOLEAN, scope : {{}} \cup {{d} : d \in DeviceIds},
            current : BOOLEAN, size : BOOLEAN, get : BOOLEAN, set : BOOLEAN] :
        Cardinality({q \in {"list", "current", "size", "get", "set"} : f[q]})
            + Cardinality(f.scope) <= 1}

NoFailure ==
    [list |-> FALSE, scope |-> {}, current |-> FALSE,
     size |-> FALSE, get |-> FALSE, set |-> FALSE]

ChangeDefaultDevice ==
    /\ panicked = "none"
    /\ call = NoCall
    /\ \E scope \in Scopes, f \in ChangeFailures :
          LET r == change_default_device(scope, f)
          IN  /\ defaultDevice' = ApplyWrites(defaultDevice, r.writes)
              /\ panicked' = r.panic
              /\ call' = [op |-> "change_default_device", scope |-> scope, fails |-> f,
                          before |-> defaultDevice, attempts |-> r.attempts]
    /\ UNCHANGED <<deviceList, streams, stmVars>>

GetDeviceName ==
    /\ panicked = "none"
    /\ call = NoCall
    /\ \E id \in ObjectIds, name \in PlatformStrings, fail \in BOOLEAN :
          LET r == get_device_name(id, name, fail)
          IN  /\ call' = [op |-> "get_device_name", device |-> id, name |-> name,
                          fail |-> fail, result |-> r.result]
              /\ panicked' = r.panic
    /\ UNCHANGED <<deviceList, streams, defaultDevice, stmVars>>

\* the platform's default device changes outside the program
EnvSetDefault ==
    /\ panicked = "none"
    /\ call = NoCall
    /\ \E scope \in Scopes, id \in ObjectIds :
          /\ id # defaultDevice[scope]
          /\ defaultDevice' = [defaultDevice EXCEPT ![scope] = id]
    /\ UNCHANGED <<deviceList, streams, call, stmVars, panicked>>

\* a device gains or loses a stream outside the program
EnvSetStreams ==
    /\ panicked = "none"
    /\ call = NoCall
    /\ \E id \in DeviceIds, scope \in Scopes, n \in 0..MaxStreams :
          /\ n # streams[id][scope]
          /\ streams' = [streams EXCEPT ![id][scope] = n]
    /\ UNCHANGED <<deviceList, defaultDevice, call, stmVars, panicked>>

\* the caller takes the outcome of its call
DeviceReturn ==
    /\ panicked = "none"
    /\ call # NoCall
    /\ call' = NoCall
    /\ UNCHANGED <<deviceList, streams, defaultDevice, stmVars, panicked>>

NextDevice ==
    \/ SetDefaultDevice
    \/ GetDevices
    \/ ChangeDefaultDevice
    \/ GetAllDevices
    \/ InScope
    \/ GetDefaultDevice
    \/ EnvSetDefault
    \/ EnvSetStreams
    \/ DeviceReturn

DeviceSpec == Init /\ [][NextDevice]_vars

\* the default-device property of a scope
DefaultAddress(scope) ==
    IF scope = "Input" THEN DEFAULT_INPUT_DEVICE_PROPERTY_ADDRESS
    ELSE DEFAULT_OUTPUT_DEVICE_PROPERTY_ADDRESS

(***************************************************************************)
(* set_default_device statement by statement.  Its two checks and its      *)
(* write are three separate requests to the platform, which nothing holds  *)
(* still in between: the default device and the stream lists may change    *)
(* after a check has read them.                                            *)
(***************************************************************************)
SetStepping == call # NoCall /\ call.op = "set_default_device_steps"

\* the call is made
SetEnter ==
    /\ panicked = "none"
    /\ call = NoCall
    /\ \E device \in ObjectIds, scope \in Scopes :
          call' = [op |-> "set_default_device_steps", pc |-> "in_scope",
                   device |-> device, scope |-> scope]
    /\ UNCHANGED <<deviceList, streams, defaultDevice, stmVars, panicked>>

\* if !device.in_scope(scope)? { return Err(Error::WrongScope); }
SetCheckScope ==
    /\ SetStepping
    /\ call.pc = "in_scope"
    /\ \E fail \in BOOLEAN :
          LET in == in_scope(call.device, call.scope, fail)
          IN  call' = IF ~in.ok
                      THEN [call EXCEPT !.pc = "done"] @@ [result |-> in, issued |-> <<>>]
                      ELSE IF ~in.val
                      THEN [call EXCEPT !.pc = "done"]
                               @@ [result |-> Err("WrongScope"), issued |-> <<>>]
                      ELSE [call EXCEPT !.pc = "default"]
    /\ UNCHANGED <<deviceList, streams, defaultDevice, stmVars, panicked>>

\* let default_device = self.get_default_device(scope)?;
\* if device == &default_device { return Err(Error::SetSameDevice); }
SetCheckDefault ==
    /\ SetStepping
    /\ call.pc = "default"
    /\ \E fail \in BOOLEAN :
          LET default_device == get_default_device(call.scope, fail)
          IN  call' = IF ~default_device.ok
                      THEN [call EXCEPT !.pc = "done"]
                               @@ [result |-> default_device, issued |-> <<>>]
                      ELSE IF call.device = default_device.val
                      THEN [call EXCEPT !.pc = "done"]
                               @@ [result |-> Err("SetSameDevice"), issued |-> <<>>]
                      ELSE [call EXCEPT !.pc = "write"]
    /\ UNCHANGED <<deviceList, streams, defaultDevice, stmVars, panicked>>

\* self.set_property_data(address, device.into()); `now` is what the
\* platform holds at the moment of the write
SetWrite ==
    /\ SetStepping
    /\ call.pc = "write"
    /\ \E fail \in BOOLEAN :
          LET set == utils_set_property_data(kAudioObjectSystemObject,
                                             DefaultAddress(call.scope), call.device, fail)
          IN  /\ defaultDevice' = ApplyWrites(defaultDevice, set.writes)
              /\ call' = [call EXCEPT !.pc = "done"]
                             @@ [result |-> set.result, issued |-> set.issued,
                                 now |-> [default |-> defaultDevice[call.scope],
                                          in_scope |-> in_scope(call.device, call.scope, FALSE)]]
    /\ UNCHANGED <<deviceList, streams, stmVars, panicked>>

\* the caller takes the outcome
SetLeave ==
    /\ SetStepping
    /\ call.pc = "done"
    /\ call' = NoCall
    /\ UNCHANGED <<deviceList, streams, defaultDevice, stmVars, panicked>>

\* the default device is changed outside the program, at any moment
ExternalSetDefault ==
    /\ \E scope \in Scopes, id \in ObjectIds :
          /\ id # defaultDevice[scope]
          /\ defaultDevice' = [defaultDevice EXCEPT ![scope] = id]
    /\ UNCHANGED <<deviceList, streams, call, stmVars, panicked>>

\* a device gains or loses a stream outside the program, at any moment
ExternalSetStreams ==
    /\ \E id \in DeviceIds, scope \in Scopes, n \in 0..MaxStreams :
          /\ n # streams[id][scope]
          /\ streams' = [streams EXCEPT ![id][scope] = n]
    /\ UNCHANGED <<deviceList, defaultDevice, call, stmVars, panicked>>

InitInterleaved ==
    /\ Init
    /\ deviceList = Ascending

NextInterleaved ==
    \/ SetEnter
    \/ SetCheckScope
    \/ SetCheckDefault
    \/ SetWrite
    \/ SetLeave
    \/ ExternalSetDefault
    \/ ExternalSetStreams

InterleavedSpec == InitInterleaved /\ [][NextInterleaved]_vars

(***************************************************************************)
(* The data-source and label queries.  An answer the call never reads is    *)
(* held at one value: a device without a source has no source name, and     *)
(* the device name matters only when the label falls back to it.            *)
(***************************************************************************)
NullString == StringRef(TRUE, <<>>)
ValidName == StringRef(FALSE, <<65>>)

SourceAnswers ==
    {[size_fail |-> sf, source |-> s, translate_fail |-> FALSE, source_name |-> NullString,
      name_fail |-> FALSE, name |-> ValidName] : sf \in BOOLEAN, s \in Sources}

SourceNameAnswers ==
    {[p EXCEPT !.translate_fail = tf, !.source_name = sn] :
        p \in {q \in SourceAnswers : ~q.size_fail /\ q.source # "none"},
        tf \in BOOLEAN, sn \in PlatformStrings}
    \cup SourceAnswers

NameAnswers ==
    {[name_fail |-> TRUE, name |-> NullString]}
    \cup {[name_fail |-> FALSE, name |-> n] : n \in PlatformStrings}

\* the label falls back to the device name
FallsBack(id, scope, p) ==
    LET source_name == get_device_source_name(id, scope, p)
    IN  /\ source_name.panic = "none"
        /\ ~source_name.result.ok
        /\ source_name.result.err # "WrongScope"

GetDeviceSource ==
    /\ panicked = "none"
    /\ call = NoCall
    /\ \E id \in ObjectIds, scope \in Scopes, p \in SourceAnswers :
          LET r == get_device_source(id, scope, p)
          IN  call' = [op |-> "get_device_source", device |-> id, scope |-> scope,
                       answers |-> p, result |-> r.result, queries |-> r.queries]
    /\ UNCHANGED <<deviceList, streams, defaultDevice, stmVars, panicked>>

GetDeviceSourceName ==
    /\ panicked = "none"
    /\ call = NoCall
    /\ \E id \in ObjectIds, scope \in Scopes, p \in SourceNameAnswers :
          LET r == get_device_source_name(id, scope, p)
          IN  /\ call' = [op |-> "get_device_source_name", device |-> id, scope |-> scope,
                          answers |-> p, result |-> r.result, queries |-> r.queries]
              /\ panicked' = r.panic
    /\ UNCHANGED <<deviceList, streams, defaultDevice, stmVars>>

GetDeviceLabel ==
    /\ panicked = "none"
    /\ call = NoCall
    /\ \E id \in ObjectIds, scope \in Scopes, q \in SourceNameAnswers :
          \E n \in IF FallsBack(id, scope, q) THEN NameAnswers
                    ELSE {[name_fail |-> FALSE, name |-> ValidName]} :
             LET p == [q EXCEPT !.name_fail = n.name_fail, !.name = n.name]
                 r == get_device_label(id, scope, p)
             IN  /\ call' = [op |-> "get_device_label", device |-> id, scope |-> scope,
                             answers |-> p, result |-> r.result, queries |-> r.queries,
                             source_name |-> get_device_source_name(id, scope, p),
                             name |-> get_device_name(id, p.name, p.name_fail)]
                 /\ panicked' = r.panic
    /\ UNCHANGED <<deviceList, streams, defaultDevice, stmVars>>

\* every device has the same number of streams in a scope
InitSource ==
    /\ Init
    /\ deviceList = Ascending
    /\ \E s \in [Scopes -> 0..MaxStreams] : streams = [d \in DeviceIds |-> s]
    /\ defaultDevice = [s \in Scopes |-> kAudioObjectUnknown]

NextSource ==
    \/ GetDeviceSource
    \/ GetDeviceSourceName
    \/ GetDeviceLabel
    \/ DeviceReturn

SourceSpec == InitSource /\ [][NextSource]_vars

\* the name queries run over one fixed state of the platform's devices
InitName ==
    /\ Init
    /\ deviceList = Ascending
    /\ streams = [d \in DeviceIds |-> [s \in Scopes |-> 0]]
    /\ defaultDevice = [s \in Scopes |-> kAudioObjectUnknown]

NextName ==
    \/ GetDeviceName
    \/ DeviceReturn

NameSpec == InitName /\ [][NextName]_vars

(***************************************************************************)
(* The stream engine's actions.  `last` holds the outcome of an operation  *)
(* until the caller takes it.                                              *)
(***************************************************************************)
\* frame counts: 0, 512, 2^30 and 2^31
FrameCounts == {<<0, 0>>, <<0, 512>>, <<16384, 0>>, <<32768, 0>>}

\* the buffers the hardware may hand over: the byte size that the size
\* check computes, or one more; one interleaved channel, or two
BufferChoices(frames, T) ==
    LET size == AsU32(WideMul(frames, size_of(T)))
    IN  {[mNumberChannels |-> c, mDataByteSize |-> b] :
            c \in {1, 2}, b \in {size, AsU32(WideAdd(size, 1))}}

IoDatas(frames, T) ==
    {[mNumberBuffers |-> Len(b), mBuffers |-> b] :
        b \in SeqsUpTo(BufferChoices(frames, T), MaxChannels + 1)}

StreamNew ==
    /\ panicked = "none"
    /\ last = NoLast
    /\ ~stm.alive
    /\ \E channels \in 0..MaxChannels, format \in Formats, rate \in Rates,
          T \in SampleTypes, status \in UnitStatuses, addr \in Addrs :
          LET r == new(channels, format, rate, T, status)
          IN  /\ panicked' = r.panic
              /\ last' = [kind |-> "new", format |-> format, T |-> T,
                          result |-> r.result, calls |-> r.calls]
              /\ IF r.panic = "none" /\ r.result.ok
                 THEN /\ stm' = [alive |-> TRUE, addr |-> addr,
                                 parameters |-> r.result.val.parameters,
                                 T |-> r.result.val.T]
                      /\ unit' = r.result.val.unit
                 ELSE UNCHANGED <<stm, unit>>
    /\ UNCHANGED <<devVars, threads, threads>>

StreamInit ==
    /\ panicked = "none"
    /\ last = NoLast
    /\ stm.alive
    /\ \E st \in [1..3 -> UnitStatuses] :
          LET r == init(stm, unit, st)
          IN  /\ unit' = r.unit
              /\ last' = [kind |-> "init", result |-> r.result, calls |-> r.calls]
    /\ UNCHANGED <<devVars, threads, stm, panicked>>

StreamStart ==
    /\ panicked = "none"
    /\ last = NoLast
    /\ stm.alive
    /\ \E status \in UnitStatuses :
          LET r == start(unit, status)
          IN  /\ unit' = r.unit
              /\ last' = [kind |-> "start", result |-> r.result, calls |-> r.calls,
                          before |-> unit]
    /\ UNCHANGED <<devVars, threads, stm, panicked>>

StreamStop ==
    /\ panicked = "none"
    /\ last = NoLast
    /\ stm.alive
    /\ \E status \in UnitStatuses :
          LET r == stop(unit, status)
          IN  /\ unit' = r.unit
              /\ last' = [kind |-> "stop", result |-> r.result, calls |-> r.calls]
    /\ UNCHANGED <<devVars, threads, stm, panicked>>

\* the caller moves the Stream value to another location
StreamMove ==
    /\ panicked = "none"
    /\ last = NoLast
    /\ stm.alive
    /\ \E addr \in Addrs \ {stm.addr} :
          /\ stm' = [stm EXCEPT !.addr = addr]
          /\ last' = [kind |-> "move", from |-> stm.addr]
    /\ UNCHANGED <<devVars, threads, unit, panicked>>

\* the Stream goes out of scope: drop runs, then its memory is released
\* and the unit it owned is closed
StreamDrop ==
    /\ panicked = "none"
    /\ last = NoLast
    /\ stm.alive
    /\ \E st \in [1..2 -> UnitStatuses] :
          LET r == drop(unit, st)
          IN  /\ panicked' = r.panic
              /\ last' = [kind |-> "drop", calls |-> r.calls, before |-> unit]
              /\ unit' = IF r.panic = "none" THEN NoUnit ELSE r.unit
              /\ stm' = IF r.panic = "none" THEN NoStream ELSE stm
    /\ UNCHANGED <<devVars, threads, threads>>

\* the hardware's render thread invokes the registered callback with the
\* registered context pointer.  When the pointer is not where the Stream
\* lives, the dereference is undefined: the thread faults, or it reads the
\* bytes left at that location as a Stream with some channel count.
Render ==
    /\ panicked = "none"
    /\ last = NoLast
    /\ unit.open /\ unit.running /\ unit.inputProc
    /\ \E frames \in FrameCounts :
       \E io_data \in IoDatas(frames, stm.T) :
          LET in_ref_con == unit.inputProcRefCon
              dangling == ~stm.alive \/ in_ref_con # stm.addr
              record(s, out, fault) ==
                  [kind |-> "render", in_ref_con |-> in_ref_con, addr |-> stm.addr,
                   dangling |-> dangling, fault |-> fault,
                   frames |-> frames, io_data |-> io_data,
                   channels |-> s.parameters.channels, T |-> s.T, out |-> out]
          IN  IF ~dangling
              THEN LET out == audio_unit_callback(stm, frames, io_data)
                   IN  /\ last' = record(stm, out, FALSE)
                       /\ panicked' = out.panic
              ELSE \/ /\ last' = record(stm, [panic |-> "none", callback |-> <<>>,
                                              allocs |-> 0, returned |-> FALSE,
                                              status |-> noErr], TRUE)
                      /\ panicked' = "fault"
                   \/ \E channels \in 0..MaxChannels :
                         LET s == [stm EXCEPT !.parameters.channels = channels]
                             out == audio_unit_callback(s, frames, io_data)
                         IN  /\ last' = record(s, out, FALSE)
                             /\ panicked' = out.panic
    /\ UNCHANGED <<devVars, threads, stm, unit>>

\* the caller takes the outcome of its operation
StreamReturn ==
    /\ panicked = "none"
    /\ last # NoLast
    /\ last' = NoLast
    /\ UNCHANGED <<devVars, threads, stm, unit, panicked>>

NextStream ==
    \/ StreamNew
    \/ StreamInit
    \/ StreamStart
    \/ StreamStop
    \/ StreamMove
    \/ StreamDrop
    \/ Render
    \/ StreamReturn

\* the stream engine runs over one fixed state of the platform's devices
InitStream ==
    /\ Init
    /\ deviceList = Ascending
    /\ streams = [d \in DeviceIds |-> [s \in Scopes |-> 0]]
    /\ defaultDevice = [s \in Scopes |-> kAudioObjectUnknown]

StreamSpec == InitStream /\ [][NextStream]_vars

(***************************************************************************)
(* Teardown against the render thread.  The caller's thread runs drop one   *)
(* statement at a time; the render thread enters the registered callback,   *)
(* then dereferences the context pointer it was handed.  A stop takes       *)
(* effect without waiting for an invocation in flight; a successful         *)
(* uninitialize is acknowledged once no invocation is in flight.  The       *)
(* Stream stays where init registered it.                                   *)
(***************************************************************************)
\* the hardware invokes audio_unit_callback with the registered pointer
RenderEnter ==
    /\ panicked = "none"
    /\ threads.render = "idle"
    /\ unit.open /\ unit.running /\ unit.inputProc
    /\ threads' = [threads EXCEPT !.render = "in_callback",
                                  !.in_ref_con = unit.inputProcRefCon,
                                  !.stale = ~stm.alive \/ unit.inputProcRefCon # stm.addr,
                                  !.deref = "none"]
    /\ UNCHANGED <<devVars, stm, unit, last, panicked>>

\* (*render_callback_object).render(...): the dereference and the render.
\* Over released memory the dereference is undefined: the thread faults, or
\* it reads what is left there and returns.
RenderRun ==
    /\ panicked = "none"
    /\ threads.render = "in_callback"
    /\ IF threads.stale
       THEN /\ threads' = [threads EXCEPT !.render = "idle", !.in_ref_con = 0,
                                          !.stale = FALSE, !.deref = "released"]
            /\ panicked' \in {"none", "fault"}
       ELSE \E frames \in FrameCounts :
            \E io_data \in IoDatas(frames, stm.T) :
               LET out == audio_unit_callback(stm, frames, io_data)
               IN  /\ threads' = [threads EXCEPT !.render = "idle", !.in_ref_con = 0,
                                                 !.deref = "live"]
                   /\ panicked' = out.panic
    /\ UNCHANGED <<devVars, stm, unit, last>>

\* drop: assert!(self.stop().is_ok()); a failed assertion unwinds
DropStop ==
    /\ panicked = "none"
    /\ last = NoLast
    /\ stm.alive
    /\ threads.teardown = "none"
    /\ \E status \in UnitStatuses :
          LET r == stop(unit, status)
          IN  /\ unit' = r.unit
              /\ threads' = [threads EXCEPT
                                !.teardown = IF r.result.ok THEN "stopped" ELSE "unwinding",
                                !.panic = IF r.result.ok THEN "none" ELSE "drop_stop"]
    /\ UNCHANGED <<devVars, stm, last, panicked>>

\* drop: assert!(self.uninit_unit().is_ok())
DropUninit ==
    /\ panicked = "none"
    /\ threads.teardown = "stopped"
    /\ \E status \in UnitStatuses :
          LET r == uninit_unit(unit, status)
          IN  /\ status = noErr => threads.render = "idle"
              /\ unit' = r.unit
              /\ threads' = [threads EXCEPT
                                !.teardown = IF r.result.ok THEN "uninitialized"
                                             ELSE "unwinding",
                                !.panic = IF r.result.ok THEN "none" ELSE "drop_uninit_unit"]
    /\ UNCHANGED <<devVars, stm, last, panicked>>

\* the end of drop, or the unwinding of its failed assertion: the fields
\* are dropped (the unit is closed) and the Stream's memory is released.
\* An invocation in flight now holds a pointer to released memory; after a
\* failed assertion the caller's thread is gone.
DropRelease ==
    /\ panicked = "none"
    /\ threads.teardown \in {"uninitialized", "unwinding"}
    /\ stm' = NoStream
    /\ unit' = NoUnit
    /\ threads' = [threads EXCEPT
                      !.teardown = IF threads.teardown = "unwinding" THEN "dead" ELSE "none",
                      !.stale = threads.stale \/ threads.render = "in_callback"]
    /\ UNCHANGED <<devVars, last, panicked>>

\* the caller's thread runs one operation at a time
RaceNew == threads.teardown = "none" /\ StreamNew
RaceInit == threads.teardown = "none" /\ StreamInit
RaceStart == threads.teardown = "none" /\ StreamStart
RaceStop == threads.teardown = "none" /\ StreamStop
RaceReturn == threads.teardown = "none" /\ StreamReturn

NextRace ==
    \/ RaceNew
    \/ RaceInit
    \/ RaceStart
    \/ RaceStop
    \/ RaceReturn
    \/ DropStop
    \/ DropUninit
    \/ DropRelease
    \/ RenderEnter
    \/ RenderRun

RaceSpec == InitStream /\ [][NextRace]_vars

(***************************************************************************)
(* Properties of set_default_device (checked under DeviceSpec).            *)
(***************************************************************************)
IsSetDefaultDevice == call # NoCall /\ call.op = "set_default_device"

\* C1: whenever in_scope(d, s) returns false, set_default_device(d, s)
\* returns Err(WrongScope), whatever the default device of s is.
C1_WrongScope ==
    (IsSetDefaultDevice /\ call.in_scope.ok /\ ~call.in_scope.val)
        => IsErr(call.result, "WrongScope")

\* a call with a device that is out of scope and is the current default
C1_Witness ==
    /\ IsSetDefaultDevice
    /\ call.in_scope.ok /\ ~call.in_scope.val
    /\ call.before[call.scope] = call.device
    /\ IsErr(call.result, "WrongScope")

\* C2, as stated: whenever d is the device get_default_device(s) returns,
\* set_default_device(d, s) returns Err(SetSameDevice) and writes nothing.
C2_SameDeviceAlways ==
    (IsSetDefaultDevice /\ call.default.ok /\ call.default.val = call.device)
        => (IsErr(call.result, "SetSameDevice") /\ call.writes = <<>>)

\* C2, amended: whenever in_scope(d, s) returns true and d is the device
\* get_default_device(s) returns, set_default_device(d, s) returns
\* Err(SetSameDevice) and the default-device properties are not written.
C2_SameDeviceInScope ==
    (/\ IsSetDefaultDevice
     /\ call.in_scope.ok /\ call.in_scope.val
     /\ call.default.ok /\ call.default.val = call.device)
        => /\ IsErr(call.result, "SetSameDevice")
           /\ call.writes = <<>>
           /\ defaultDevice = call.before

\* a call with the current default, which is in scope
C2_Witness ==
    /\ IsSetDefaultDevice
    /\ call.in_scope.ok /\ call.in_scope.val
    /\ call.default.ok /\ call.default.val = call.device
    /\ IsErr(call.result, "SetSameDevice")

(***************************************************************************)
(* Properties of the Stream lifecycle (checked under StreamSpec).          *)
(***************************************************************************)
Prims(calls) == [i \in DOMAIN calls |-> calls[i].prim]

\* init has completed on the unit `u`
InitCompleted(u) == u.formatSet /\ u.inputProc /\ u.initialized

\* C3: Stream::start calls the unit's start primitive only on a Stream
\* whose init has completed (format set, callback registered, unit
\* initialized).
C3_StartOnlyAfterInit ==
    (last.kind = "start" /\ "start" \in Range(Prims(last.calls)))
        => InitCompleted(last.before)

\* C4: whenever the render callback is invoked, the registered context
\* pointer is the address at which the Stream lives.
C4_ContextIsStream ==
    last.kind = "render" => (~last.dangling /\ last.in_ref_con = last.addr)

InitOrder ==
    <<"kAudioUnitProperty_StreamFormat", "kAudioUnitProperty_SetRenderCallback", "initialize">>

\* C5: init calls set stream format, register callback, initialize unit in
\* this order, stops at the first step that fails and returns that step's
\* failure wrapped as Error::AudioUnit; it returns Ok only after all three.
C5_InitOrder ==
    last.kind = "init"
        => LET c == last.calls
               n == Len(c)
           IN  /\ n \in 1..3
               /\ \A i \in 1..n : c[i].prim = InitOrder[i]
               /\ \A i \in 1..(n - 1) : c[i].status = noErr
               /\ IF c[n].status = noErr
                  THEN n = 3 /\ last.result.ok
                  ELSE ~last.result.ok /\ last.result.err = AudioUnitError(c[n].status)

\* init failed at the callback registration
C5_Witness ==
    /\ last.kind = "init"
    /\ Len(last.calls) = 2
    /\ last.calls[1].status = noErr
    /\ last.calls[2].status = -50
    /\ ~last.result.ok /\ last.result.err = AudioUnitError(-50)
    /\ ~unit.initialized

\* C6: dropping a Stream calls the unit's stop and then its uninitialize,
\* whatever stop returned.
C6_DropStopsThenUninitializes ==
    last.kind = "drop" => Prims(last.calls) = <<"stop", "uninitialize">>

(***************************************************************************)
(* Error handling (checked under NameSpec).                                *)
(***************************************************************************)
\* C7: the program aborts only on a sample-type/format mismatch in
\* Stream::new or on a structural violation in the render path.
C7_OnlyContractPanics ==
    panicked \in {"none", "new_byte_size", "render_buffer_count", "render_interleave",
                  "render_byte_size"}

(***************************************************************************)
(* Properties of the render path (checked under StreamSpec).               *)
(***************************************************************************)
\* the buffer list of render record r has one buffer per channel, each with
\* one interleaved channel and frames * size_of(T) bytes
WellFormed(r) ==
    /\ r.io_data.mNumberBuffers = r.channels
    /\ \A i \in 1..r.io_data.mNumberBuffers :
          /\ r.io_data.mBuffers[i].mNumberChannels = 1
          /\ r.io_data.mBuffers[i].mDataByteSize = WideMul(r.frames, size_of(r.T))

\* C8: a render invocation with one well-formed buffer per channel invokes
\* the user callback once, with one slice of frame-count length per
\* channel, and returns noErr.
C8_RenderBridges ==
    (last.kind = "render" /\ ~last.fault /\ WellFormed(last))
        => /\ last.out.panic = "none"
           /\ last.out.callback = << [i \in 1..last.channels |-> [len |-> last.frames]] >>
           /\ last.out.returned /\ last.out.status = noErr

\* 512 frames of two 16-bit channels, 1024 bytes each
C8_Witness ==
    /\ last.kind = "render" /\ ~last.dangling
    /\ last.channels = 2 /\ last.T = "i16" /\ last.frames = Wide(512)
    /\ WellFormed(last)
    /\ last.io_data.mBuffers[1].mDataByteSize = Wide(1024)
    /\ Len(last.out.callback) = 1 /\ Len(last.out.callback[1]) = 2

\* C9: a render invocation whose buffer list is not well formed aborts
\* without invoking the user callback.
C9_ViolationIsFatal ==
    (last.kind = "render" /\ ~last.fault /\ ~WellFormed(last))
        => (last.out.panic # "none" /\ last.out.callback = <<>>)

\* C10: a render invocation makes no heap allocation.
C10_NoHeapAllocation ==
    last.kind = "render" => last.out.allocs = 0

\* C12: in_scope(scope) returns Ok(true) exactly when the device's stream
\* count in the scope is above zero, the count being the byte size of the
\* stream list over the size of one stream id; when the size query fails it
\* returns Err and not Ok(false).
C12_InScopeIsStreamCount ==
    call.op = "in_scope" =>
        IF call.fail \/ call.device \notin Range(deviceList)
        THEN ~call.result.ok
        ELSE LET bytes == streams[call.device][call.scope] * 4
             IN  /\ call.result.ok
                 /\ call.result.val = ((bytes \div 4) > 0)

C12_Witness ==
    /\ call.op = "in_scope"
    /\ call.result.ok
    /\ call.result.val
    /\ streams[call.device][call.scope] > 0

\* C13: get_default_device(scope) returns Err(NoDeviceFound) exactly when
\* the read of the default-device property succeeds and yields the unknown
\* handle; on any other successful read it returns the handle read.
C13_DefaultDevice ==
    call.op = "get_default_device" =>
        /\ IsErr(call.result, "NoDeviceFound")
               <=> (~call.fail /\ defaultDevice[call.scope] = kAudioObjectUnknown)
        /\ (~call.fail /\ defaultDevice[call.scope] # kAudioObjectUnknown)
               => (call.result.ok /\ call.result.val = defaultDevice[call.scope])

C13_Witness ==
    /\ call.op = "get_default_device"
    /\ IsErr(call.result, "NoDeviceFound")

\* C14: get_devices(scope) returns exactly the devices of the platform's
\* device list that have a stream in the scope, in the order of the list,
\* none added and none dropped; it does so whenever no query is rejected.
C14_DevicesOfScope ==
    call.op = "get_devices" =>
        LET expected == SelectSeq(deviceList, LAMBDA d : streams[d][call.scope] > 0)
        IN  /\ call.result.ok => call.result.val = expected
            /\ (~call.fails.list /\ call.fails.scope = {}) => call.result.ok

C14_Witness ==
    /\ call.op = "get_devices"
    /\ call.result.ok
    /\ Len(call.result.val) >= 1
    /\ Len(call.result.val) < Len(deviceList)

C20_SelectsOtherDevice ==
    (call.op = "change_default_device" /\ call.fails = NoFailure) =>
        LET candidates == SelectSeq(deviceList, LAMBDA d : streams[d][call.scope] > 0)
            different == SelectSeq(candidates, LAMBDA d : d # call.before[call.scope])
        IN  /\ (call.attempts # <<>>) <=> (Len(candidates) >= 2)
            /\ (call.attempts # <<>>) =>
                   /\ call.attempts[1].device = Head(different)
                   /\ call.attempts[1].result.ok

\* C15: for a device with no stream in the scope, get_device_source and
\* get_device_source_name return Err(WrongScope) and query neither the
\* data-source property nor the translation of a source to its name.
C15_NoSourceOutOfScope ==
    (/\ call.op \in {"get_device_source", "get_device_source_name"}
     /\ call.device \in Range(deviceList)
     /\ ~call.answers.size_fail
     /\ streams[call.device][call.scope] = 0) =>
        /\ IsErr(call.result, "WrongScope")
        /\ panicked = "none"
        /\ \A i \in DOMAIN call.queries :
               call.queries[i].mSelector \notin
                   {"kAudioDevicePropertyDataSource",
                    "kAudioDevicePropertyDataSourceNameForIDCFString"}

C15_Witness ==
    /\ call.op = "get_device_source_name"
    /\ call.device \in Range(deviceList)
    /\ streams[call.device][call.scope] = 0
    /\ call.answers.source # "none"
    /\ IsErr(call.result, "WrongScope")

\* C16: when get_device_source_name fails with an error other than
\* WrongScope, get_device_label returns exactly what get_device_name()
\* returns; when it succeeds, get_device_label returns that source name.
C16_LabelFallsBackToName ==
    (call.op = "get_device_label" /\ call.source_name.panic = "none") =>
        IF call.source_name.result.ok
        THEN /\ call.result.ok
             /\ call.result.val = call.source_name.result.val
             /\ panicked = "none"
        ELSE call.source_name.result.err # "WrongScope" =>
                /\ call.result.ok = call.name.result.ok
                /\ call.result.ok => call.result.val = call.name.result.val
                /\ ~call.result.ok => call.result.err = call.name.result.err
                /\ panicked = call.name.panic

C16_Witness ==
    /\ call.op = "get_device_label"
    /\ IsErr(call.source_name.result, "ConversionFailed")
    /\ call.result.ok
    /\ call.result.val = <<65, 65>>

\* C17: when the device has no stream in the scope, get_device_label
\* returns Err(WrongScope) and does not fall back to the device name, even
\* when the device has a valid name.
C17_LabelWrongScope ==
    (/\ call.op = "get_device_label"
     /\ call.device \in Range(deviceList)
     /\ ~call.answers.size_fail
     /\ streams[call.device][call.scope] = 0) =>
        /\ IsErr(call.result, "WrongScope")
        /\ panicked = "none"
        /\ \A i \in DOMAIN call.queries : call.queries[i] # DEVICE_NAME_PROPERTY_ADDRESS

C17_Witness ==
    /\ call.op = "get_device_label"
    /\ call.device \in Range(deviceList)
    /\ streams[call.device][call.scope] = 0
    /\ call.name.result.ok
    /\ IsErr(call.result, "WrongScope")

\* C18: the stream description built from a Stream's parameters (channels,
\* format, rate) has bits_per_channel = 8 * byte_size, bytes_per_frame =
\* byte_size, frames_per_packet = 1, bytes_per_packet = bytes_per_frame and
\* channels_per_frame = channels, byte_size being 2 for Signed16LE and 4 for
\* Float32LE; only channels_per_frame depends on the channel count.
C18_Description ==
    unit.formatSet =>
        LET d == unit.description
            size == IF stm.parameters.format = "S16LE" THEN 2 ELSE 4
        IN  /\ d.mBitsPerChannel = 8 * size
            /\ d.mBytesPerFrame = size
            /\ d.mFramesPerPacket = 1
            /\ d.mBytesPerPacket = d.mBytesPerFrame
            /\ d.mChannelsPerFrame = stm.parameters.channels

C18_Witness ==
    /\ unit.formatSet
    /\ stm.parameters.channels = 2
    /\ stm.parameters.format = "F32LE"
    /\ unit.description.mBytesPerFrame = 4

\* C11: in every interleaving of the caller's stop and destruction of a
\* Stream with the render thread, no render invocation dereferences the
\* registered context pointer after the Stream's memory has been released,
\* an invocation in flight when stop is called included.
C11_NoUseAfterRelease == threads.deref # "released"

\* C21: each call of start or stop issues exactly one call of the unit's
\* primitive of the same name, whatever state the Stream is in (a second
\* start while running included), and returns Ok when the primitive
\* succeeds and its failure wrapped as Error::AudioUnit otherwise.
C21_StartStopForward ==
    last.kind \in {"start", "stop"} =>
        /\ Len(last.calls) = 1
        /\ last.calls[1].prim = last.kind
        /\ last.result.ok <=> last.calls[1].status = noErr
        /\ ~last.result.ok =>
               last.result.err = [variant |-> "AudioUnit", e |-> last.calls[1].status]

C21_Witness ==
    /\ last.kind = "start"
    /\ last.before.running
    /\ Len(last.calls) = 1
    /\ ~last.result.ok

\* C22: Stream::new only opens the unit's handle and stores the parameters:
\* when it returns Ok no stream format has been set, no render callback is
\* registered and the unit is not initialized; when the format's byte size
\* differs from the size of the sample type it aborts before any handle is
\* opened.
C22_NewOnlyOpens ==
    last.kind = "new" =>
        /\ \A i \in DOMAIN last.calls : last.calls[i].prim = "new"
        /\ ((last.format = "S16LE") # (last.T = "i16")) =>
               /\ panicked = "new_byte_size"
               /\ last.calls = <<>>
               /\ ~unit.open
        /\ (panicked = "none" /\ last.result.ok) =>
               /\ Len(last.calls) = 1
               /\ unit.open
               /\ ~unit.formatSet /\ ~unit.inputProc /\ ~unit.initialized /\ ~unit.running
               /\ stm.alive
               /\ stm.parameters.format = last.format

C22_Witness ==
    /\ last.kind = "new"
    /\ last.format = "F32LE"
    /\ last.T = "i16"
    /\ panicked = "new_byte_size"
    /\ last.calls = <<>>

\* C23 as stated: whenever set_default_device(d, s) returns an Err, no write
\* to a default-device property has been issued and the defaults of both
\* scopes are unchanged; any call issues at most one write, to the property
\* of scope s.
C23_ErrIssuesNoWrite ==
    IsSetDefaultDevice =>
        /\ ~call.result.ok => (call.issued = <<>> /\ defaultDevice = call.before)
        /\ Len(call.issued) <= 1
        /\ \A i \in DOMAIN call.issued : call.issued[i].address = DefaultAddress(call.scope)

\* C23 amended: whenever set_default_device(d, s) returns an Err the
\* defaults of both scopes are unchanged; when the Err comes from a check
\* (a failed query, WrongScope, NoDeviceFound, SetSameDevice) no write has
\* been issued; any call issues at most one write, of d to the property of
\* scope s, and an issued write that the platform rejects is an Err too.
C23_ErrChangesNothing ==
    IsSetDefaultDevice =>
        LET stopped == \/ ~call.in_scope.ok
                       \/ ~call.in_scope.val
                       \/ ~call.default.ok
                       \/ call.default.val = call.device
        IN  /\ ~call.result.ok => (call.writes = <<>> /\ defaultDevice = call.before)
            /\ stopped => (~call.result.ok /\ call.issued = <<>>)
            /\ Len(call.issued) <= 1
            /\ \A i \in DOMAIN call.issued :
                   /\ call.issued[i].address = DefaultAddress(call.scope)
                   /\ call.issued[i].data = call.device

C23_Witness ==
    /\ IsSetDefaultDevice
    /\ ~call.result.ok
    /\ Len(call.issued) = 1
    /\ defaultDevice = call.before

\* C24: when the platform answers the default-device query of scope s with
\* the unknown sentinel (no default exists), set_default_device(d, s) for a
\* valid d that is in scope s returns Err(NoDeviceFound), issues no write
\* and leaves both defaults as they were.
C24_NoDefaultNoWrite ==
    (/\ IsSetDefaultDevice
     /\ is_valid(call.device)
     /\ call.in_scope = Ok(TRUE)
     /\ call.default # Err("InvalidParameters")
     /\ call.before[call.scope] = kAudioObjectUnknown) =>
        /\ call.result = Err("NoDeviceFound")
        /\ call.writes = <<>>
        /\ call.issued = <<>>
        /\ defaultDevice = call.before

C24_Witness ==
    /\ IsSetDefaultDevice
    /\ call.device \in DeviceIds
    /\ call.in_scope = Ok(TRUE)
    /\ call.before[call.scope] = kAudioObjectUnknown
    /\ call.result = Err("NoDeviceFound")
    /\ defaultDevice[call.scope] = kAudioObjectUnknown

\* C25: in every interleaving of set_default_device(d, s) with changes made
\* outside the program, a write of d is issued only while d is not the
\* default of s and d is in scope s.
C25_NeverWritesSameOrOutOfScope ==
    (SetStepping /\ call.pc = "done" /\ call.issued # <<>>) =>
        /\ call.now.default # call.device
        /\ call.now.in_scope = Ok(TRUE)

\* C26: a render invocation passes the size check of get_buffer_data only
\* with buffers whose 32-bit byte size is the exact product
\* frame_count * size_of(SampleType), the product not reduced to 32 bits.
C26_SizeCheckIsExact ==
    (last.kind = "render" /\ ~last.fault /\ last.out.panic = "none") =>
        \A i \in 1..last.io_data.mNumberBuffers :
            last.io_data.mBuffers[i].mDataByteSize = WideMul(last.frames, size_of(last.T))

====
